---- MODULE Spec2Model ----
(***************************************************************************)
(* Model of src/main/githooks.py: the commit-hook checks of                *)
(* ccdc-opensource/commit-hooks.                                           *)
(*                                                                         *)
(* Python strings are sequences of one-character strings.  Regular         *)
(* expressions are records mirroring the pattern literals of the source,   *)
(* interpreted by Ends (the set of positions a match can end at).          *)
(***************************************************************************)
EXTENDS Integers, Sequences, FiniteSets, TLC

VARIABLES mode, status, worktree, index, diff, call

vars == <<mode, status, worktree, index, diff, call>>

(***************************************************************************)
(* Bounds of the model.                                                    *)
(***************************************************************************)
MaxStart == 11
MaxCount == 10
MaxOld == 2
MaxTrimLen == 5
MaxTokens == 2
MaxLine == 2
MaxHunks == 1
MaxParts == 3
MaxPaths == 5
MaxLetters == 9
MaxDigits == 6
MaxFiles == 2
MaxPieces == 3

(***************************************************************************)
(* Characters and character classes (Python str / re semantics).           *)
(***************************************************************************)
Digits == <<"0", "1", "2", "3", "4", "5", "6", "7", "8", "9">>

DigitChars == {Digits[i] : i \in 1..10}

UpperSeq == <<"A", "B", "C", "D", "E", "F", "G", "H", "I", "J", "K", "L", "M",
             "N", "O", "P", "Q", "R", "S", "T", "U", "V", "W", "X", "Y", "Z">>

LowerSeq == <<"a", "b", "c", "d", "e", "f", "g", "h", "i", "j", "k", "l", "m",
             "n", "o", "p", "q", "r", "s", "t", "u", "v", "w", "x", "y", "z">>

UpperChars == {UpperSeq[i] : i \in 1..26}

LowerChars == {LowerSeq[i] : i \in 1..26}

\* s.lower()
Lower(s) ==
    [i \in 1..Len(s) |->
        IF s[i] \in UpperChars
        THEN LowerSeq[CHOOSE k \in 1..26 : UpperSeq[k] = s[i]]
        ELSE s[i]]

\* characters matched by \s ; every one of them also satisfies str.isspace()
Whitespace == {" ", "\t", "\n", "\r", "\f"}

\* characters matched by \w : alphanumerics and the underscore
WordChars == UpperChars \cup LowerChars \cup DigitChars \cup {"_"}

(***************************************************************************)
(* Sequence helpers.                                                       *)
(***************************************************************************)
Max(S) == CHOOSE x \in S : \A y \in S : y <= x

Min(S) == CHOOSE x \in S : \A y \in S : x <= y

\* s[i:j] with 0-based half-open offsets, 0 <= i <= j <= len(s)
Slice(s, i, j) == [k \in 1..(j - i) |-> s[i + k]]

RECURSIVE Concat(_)
\* ''.join(parts)
Concat(parts) ==
    IF parts = <<>> THEN <<>> ELSE Head(parts) \o Concat(Tail(parts))

\* sub in s
Contains(s, sub) ==
    \E i \in 0..(Len(s) - Len(sub)) : Slice(s, i, i + Len(sub)) = sub

\* s.startswith(prefix)
StartsWith(s, prefix) ==
    Len(prefix) <= Len(s) /\ Slice(s, 0, Len(prefix)) = prefix

\* s.endswith(suffix)
EndsWith(s, suffix) ==
    Len(suffix) <= Len(s) /\ Slice(s, Len(s) - Len(suffix), Len(s)) = suffix

RECURSIVE IntToStr(_)
\* str(n) / f'{n}' for n >= 0
IntToStr(n) ==
    IF n < 10 THEN <<Digits[n + 1]>>
    ELSE IntToStr(n \div 10) \o <<Digits[(n % 10) + 1]>>

DigitValue(ch) == (CHOOSE i \in 1..10 : Digits[i] = ch) - 1

RECURSIVE StrToInt(_)
\* int(s) for a non-empty string of decimal digits
StrToInt(s) ==
    IF Len(s) = 1 THEN DigitValue(s[1])
    ELSE 10 * StrToInt(SubSeq(s, 1, Len(s) - 1)) + DigitValue(s[Len(s)])

RECURSIVE Split(_, _)
\* s.split(sep) for a one-character separator
Split(s, sep) ==
    IF \A i \in 1..Len(s) : s[i] # sep THEN <<s>>
    ELSE LET i == Min({k \in 1..Len(s) : s[k] = sep})
         IN  <<Slice(s, 0, i - 1)>> \o Split(Slice(s, i, Len(s)), sep)

(***************************************************************************)
(* Regular expressions.  A pattern is a record:                            *)
(*   [t |-> "set", neg, cs]   one character in (neg: not in) cs            *)
(*   [t |-> "cat", rs]        the patterns of the sequence rs in a row     *)
(*   [t |-> "alt", rs]        one of the patterns of rs                    *)
(*   [t |-> "rep", r, lo, hi] r repeated lo..hi times (hi = -1: no limit)  *)
(*   [t |-> "bol"] ^   [t |-> "eol"] $   [t |-> "wb"] \b                   *)
(* Ends(r, s, P) is the set of offsets at which a match of r in s that     *)
(* starts at an offset of P can end.                                       *)
(***************************************************************************)
Chr(c) == [t |-> "set", neg |-> FALSE, cs |-> {c}]

In(cs) == [t |-> "set", neg |-> FALSE, cs |-> cs]

NotIn(cs) == [t |-> "set", neg |-> TRUE, cs |-> cs]

Cat(rs) == [t |-> "cat", rs |-> rs]

Alt(rs) == [t |-> "alt", rs |-> rs]

Rep(r, lo, hi) == [t |-> "rep", r |-> r, lo |-> lo, hi |-> hi]

Opt(r) == Rep(r, 0, 1)

Plus(r) == Rep(r, 1, -1)

Star(r) == Rep(r, 0, -1)

\* the literal text lit, character by character
Lit(lit) == Cat([i \in 1..Len(lit) |-> Chr(lit[i])])

\* . matches anything but a newline
Dot == NotIn({"\n"})

Bol == [t |-> "bol"]

Eol == [t |-> "eol"]

WordBoundary == [t |-> "wb"]

IsWordAt(s, i) == i >= 1 /\ i <= Len(s) /\ s[i] \in WordChars

RECURSIVE Ends(_, _, _)
RECURSIVE EndsCat(_, _, _)
RECURSIVE EndsRep(_, _, _, _, _)

Ends(r, s, P) ==
    CASE r.t = "set" ->
           {p + 1 : p \in {q \in P : q < Len(s) /\ ((s[q + 1] \in r.cs) # r.neg)}}
      [] r.t = "cat" -> EndsCat(r.rs, s, P)
      [] r.t = "alt" -> UNION {Ends(r.rs[i], s, P) : i \in 1..Len(r.rs)}
      [] r.t = "rep" -> EndsRep(r.r, s, P, r.lo, r.hi)
      [] r.t = "bol" -> {p \in P : p = 0}
      [] r.t = "eol" ->
           {p \in P : p = Len(s) \/ (p = Len(s) - 1 /\ s[Len(s)] = "\n")}
      [] r.t = "wb" -> {p \in P : IsWordAt(s, p) # IsWordAt(s, p + 1)}

EndsCat(rs, s, P) ==
    IF rs = <<>> \/ P = {} THEN P ELSE EndsCat(Tail(rs), s, Ends(Head(rs), s, P))

EndsRep(r, s, P, lo, hi) ==
    IF P = {} \/ hi = 0 THEN P
    ELSE LET Q == Ends(r, s, P)
             rest == EndsRep(r, s, Q \ (IF lo > 0 THEN {} ELSE P),
                             IF lo > 0 THEN lo - 1 ELSE 0,
                             IF hi > 0 THEN hi - 1 ELSE hi)
         IN  IF lo > 0 THEN rest ELSE P \cup rest

\* pattern.match(s) is not None
ReMatch(r, s) == Ends(r, s, {0}) # {}

\* pattern.search(s) is not None
ReSearch(r, s) == Ends(r, s, 0..Len(s)) # {}

(***************************************************************************)
(* parse_diff_header and yield_changed_lines.                              *)
(***************************************************************************)
\* parse_diff_header.pattern = ^@@\s[^\s]+\s\+?(\d+)(,(\d+))?\s@@.*
\* cut at its groups: HeaderPre (\d+) ( , (\d+) )? HeaderPost
HeaderPre ==
    Cat(<<Bol, Lit(<<"@", "@">>), In(Whitespace), Plus(NotIn(Whitespace)),
          In(Whitespace), Opt(Chr("+"))>>)

HeaderNum == Plus(In(DigitChars))

HeaderPost == Cat(<<In(Whitespace), Lit(<<"@", "@">>), Star(Dot)>>)

\* Every way the pattern matches header_line from offset 0: group 1 is
\* [i, j), group 2 (when g2) is [j, k) and group 3 is [j + 1, k).
HeaderMatches(header_line) ==
    UNION {
      UNION {
        {[i |-> i, j |-> j, k |-> k, g2 |-> TRUE] :
            k \in {e \in Ends(HeaderNum, header_line,
                              Ends(Chr(","), header_line, {j})) :
                     Ends(HeaderPost, header_line, {e}) # {}}}
        \cup
        (IF Ends(HeaderPost, header_line, {j}) # {}
         THEN {[i |-> i, j |-> j, k |-> j, g2 |-> FALSE]} ELSE {})
        : j \in Ends(HeaderNum, header_line, {i})}
      : i \in Ends(HeaderPre, header_line, {0})}

\* The match the backtracking matcher picks among the matches M: every
\* quantifier of the pattern is greedy, so the earlier group takes the
\* longest text it can.
GreedyMatch(M) ==
    LET M1 == {m \in M : m.i = Max({x.i : x \in M})}
        M2 == {m \in M1 : m.j = Max({x.j : x \in M1})}
        M3 == IF \E m \in M2 : m.g2 THEN {m \in M2 : m.g2} ELSE M2
    IN  CHOOSE m \in M3 : m.k = Max({x.k : x \in M3})

\* parse_diff_header.pattern.match(header_line)
HeaderMatch(header_line) == GreedyMatch(HeaderMatches(header_line))

\* the mutant of changed_lines_text: the range end is one too far
changed_lines_text_inclusive_count(start, has_count, num) ==
    IF has_count /\ num > 0
    THEN IntToStr(start) \o <<"-">> \o IntToStr(start + num)
    ELSE IntToStr(start)

\* lines 205-213 of parse_diff_header: the text for a start and, when the
\* header has one, a count
changed_lines_text(start, has_count, num) ==
    IF has_count
    THEN IF num > 0
         THEN IntToStr(start) \o <<"-">> \o IntToStr(start + num - 1)
         ELSE IntToStr(start)
    ELSE IntToStr(start)

\* lines 205-207 of parse_diff_header: the numbers of the groups of the match
MatchGroups(header_line, match) ==
    changed_lines_text(StrToInt(Slice(header_line, match.i, match.j)),
                       match.g2,
                       IF match.g2
                       THEN StrToInt(Slice(header_line, match.j + 1, match.k))
                       ELSE 0)

\* parse_diff_header(header_line), for a line the pattern matches
parse_diff_header(header_line) ==
    MatchGroups(header_line, HeaderMatch(header_line))

\* list(range(start, end + 1))
RangeList(start, end) == [k \in 1..(end - start + 1) |-> start + k - 1]

RECURSIVE yield_changed_lines(_)
\* list(yield_changed_lines(changed_lines))
yield_changed_lines(changed_lines) ==
    IF changed_lines = <<>> THEN <<>>
    ELSE LET line_num_range == Head(changed_lines)
             parts == Split(line_num_range, "-")
             start == StrToInt(parts[1])
             end   == IF \E i \in 1..Len(line_num_range) : line_num_range[i] = "-"
                      THEN StrToInt(parts[2])
                      ELSE StrToInt(line_num_range)
         IN  RangeList(start, end) \o yield_changed_lines(Tail(changed_lines))

\* "start" or "start,count": one side of a hunk header (count < 0: omitted)
HunkSide(start, count) ==
    IntToStr(start) \o (IF count < 0 THEN <<>> ELSE <<",">> \o IntToStr(count))

\* the hunk header git prints: @@ -a[,b] +c[,d] @@
HunkHeader(a, b, c, d) ==
    <<"@", "@", " ", "-">> \o HunkSide(a, b) \o <<" ", "+">> \o HunkSide(c, d)
        \o <<" ", "@", "@">>

(***************************************************************************)
(* SpecHeader: parse_diff_header and yield_changed_lines on every hunk     *)
(* header within the bounds.                                               *)
(***************************************************************************)
\* the part of the state the string functions leave alone
NoRepository ==
    /\ mode = "commit"
    /\ status = "A"
    /\ worktree = <<>>
    /\ index = <<>>
    /\ diff = <<>>

InitHeader ==
    /\ NoRepository
    /\ \E a \in 1..MaxOld, b \in -1..MaxOld, c \in 0..MaxStart, d \in -1..MaxCount :
          call = [op |-> "header", a |-> a, b |-> b, c |-> c, d |-> d,
                  header_line |-> HunkHeader(a, b, c, d)]

ParseDiffHeader ==
    /\ call.op = "header"
    /\ \E changed_lines \in {parse_diff_header(call.header_line)} :
           call' = [op |-> "parse_diff_header", a |-> call.a, b |-> call.b,
                    c |-> call.c, d |-> call.d, header_line |-> call.header_line,
                    changed_lines |-> changed_lines,
                    yielded |-> yield_changed_lines(<<changed_lines>>)]
    /\ UNCHANGED <<mode, status, worktree, index, diff>>

NextHeader == ParseDiffHeader

SpecHeader == InitHeader /\ [][NextHeader]_vars

\* C2: for every valid hunk header '@@ -a[,b] +c[,d] @@', parse_diff_header
\* followed by yield_changed_lines gives exactly the ascending line numbers
\* c..c+d-1 when d > 0 and the single line c when d is omitted or 0; the
\* old side a, b plays no part.
C2_HeaderRange ==
    call.op = "parse_diff_header" =>
        call.yielded = (IF call.d > 0 THEN [k \in 1..call.d |-> call.c + k - 1]
                        ELSE <<call.c>>)

\* a three-line hunk starting at a two-digit line, with an old side that differs
C2_Witness ==
    /\ call.op = "parse_diff_header"
    /\ call.header_line = <<"@", "@", " ", "-", "2", ",", "0", " ", "+", "1", "0",
                            ",", "3", " ", "@", "@">>
    /\ call.yielded = <<10, 11, 12>>

(***************************************************************************)
(* trim_trailing_whitespace.                                               *)
(***************************************************************************)
\* trim_trailing_whitespace.pattern = \s*?(\r?\n|$)
\* Where group 1, (\r?\n|$), ends when it starts at offset q, -1 when it
\* cannot: the alternative \r?\n is tried before $, and \r? takes the \r when
\* a \n follows it.
TrimGroupEnd(s, q) ==
    IF q + 2 <= Len(s) /\ s[q + 1] = "\r" /\ s[q + 2] = "\n" THEN q + 2
    ELSE IF q + 1 <= Len(s) /\ s[q + 1] = "\n" THEN q + 1
    ELSE IF q = Len(s) \/ (q = Len(s) - 1 /\ s[Len(s)] = "\n") THEN q
    ELSE -1

RECURSIVE TrimGroupStart(_, _, _)
\* Where group 1 starts in the match that starts at offset p, once the
\* whitespace up to offset q is taken; -1 when nothing matches at p.  The lazy
\* \s*? tries group 1 before it takes one more whitespace character, a greedy
\* \s* after.
TrimGroupStart(s, q, lazy) ==
    LET more == IF q < Len(s) /\ s[q + 1] \in Whitespace
                THEN TrimGroupStart(s, q + 1, lazy) ELSE -1
        here == IF TrimGroupEnd(s, q) >= 0 THEN q ELSE -1
    IN  IF lazy THEN (IF here >= 0 THEN here ELSE more)
        ELSE (IF more >= 0 THEN more ELSE here)

RECURSIVE TrimSub(_, _, _)
\* pattern.sub(r"\1", string) from offset pos on: the text up to the leftmost
\* match is copied, the match is replaced by its group 1, and the search goes
\* on after it (one character further after an empty match).  A match always
\* exists: $ matches at the end.  lazy is TRUE for the pattern of the source.
TrimSub(s, pos, lazy) ==
    IF pos > Len(s) THEN <<>>
    ELSE LET p == Min({k \in pos..Len(s) : TrimGroupStart(s, k, lazy) >= 0})
             q == TrimGroupStart(s, p, lazy)
             e == TrimGroupEnd(s, q)
         IN  Slice(s, pos, p) \o Slice(s, q, e)
                \o (IF e > p THEN TrimSub(s, e, lazy)
                    ELSE IF p < Len(s)
                         THEN <<s[p + 1]>> \o TrimSub(s, p + 1, lazy)
                         ELSE <<>>)

\* the mutant of trim_trailing_whitespace: \s* in place of \s*?
trim_trailing_whitespace_greedy(string) == TrimSub(string, 0, FALSE)

\* trim_trailing_whitespace(string)
trim_trailing_whitespace(string) == TrimSub(string, 0, TRUE)

(***************************************************************************)
(* SpecTrim: trim_trailing_whitespace on every string within the bounds.   *)
(***************************************************************************)
TrimAlphabet == {"a", " ", "\t", "\n", "\r"}

TrimStrings == UNION {[1..n -> TrimAlphabet] : n \in 0..MaxTrimLen}

InitTrim ==
    /\ NoRepository
    /\ \E string \in TrimStrings : call = [op |-> "string", string |-> string]

TrimTrailingWhitespace ==
    /\ call.op = "string"
    /\ \E once \in {trim_trailing_whitespace(call.string)} :
           call' = [op |-> "trim_trailing_whitespace", string |-> call.string,
                    result |-> once, again |-> trim_trailing_whitespace(once)]
    /\ UNCHANGED <<mode, status, worktree, index, diff>>

NextTrim == TrimTrailingWhitespace

SpecTrim == InitTrim /\ [][NextTrim]_vars

\* s[i] belongs to a line terminator '\n' or '\r\n'
InTerminator(s, i) ==
    s[i] = "\n" \/ (s[i] = "\r" /\ i < Len(s) /\ s[i + 1] = "\n")

\* the line terminators of s, in order (2 for '\r\n', 1 for '\n')
TerminatorsOf(s) ==
    LET at == SelectSeq([i \in 1..Len(s) |-> i], LAMBDA i : s[i] = "\n")
    IN  [n \in 1..Len(at) |-> IF at[n] > 1 /\ s[at[n] - 1] = "\r" THEN 2 ELSE 1]

\* s[i] is trailing whitespace: whitespace outside a terminator with nothing
\* but such whitespace between it and the next terminator or the end of s
IsTrailing(s, i) ==
    \E e \in i..Len(s) :
        /\ \A j \in i..e : s[j] \in Whitespace /\ ~InTerminator(s, j)
        /\ e = Len(s) \/ InTerminator(s, e + 1)

\* s without the characters at the positions of D
Without(s, D) ==
    LET keep == SelectSeq([i \in 1..Len(s) |-> i], LAMBDA i : i \notin D)
    IN  [n \in 1..Len(keep) |-> s[keep[n]]]

\* C3: trim_trailing_whitespace is idempotent; its result keeps every line
\* terminator ('\n' or '\r\n') of s, in order; it differs from s only by
\* whitespace removed from immediately before a terminator or the end of the
\* input, so interior whitespace and every other character stay.
C3_Trim ==
    call.op = "trim_trailing_whitespace" =>
        /\ call.again = call.result
        /\ TerminatorsOf(call.result) = TerminatorsOf(call.string)
        /\ \E D \in SUBSET {i \in 1..Len(call.string) : IsTrailing(call.string, i)} :
              call.result = Without(call.string, D)

\* the example of the source's test, cut to the bound: ' a \r\n ' gives ' a\r\n'
C3_Witness ==
    /\ call.op = "trim_trailing_whitespace"
    /\ call.string = <<" ", "a", " ", "\r", "\n">>
    /\ call.result = <<" ", "a", "\r", "\n">>

(***************************************************************************)
(* The file under check.  mode is the context the hook runs in:            *)
(* "pull_request" and "push" are GitHub events, "commit" is the local      *)
(* pre-commit hook and "pytest" is the local run under pytest.  status is  *)
(* the file's status in the commit, "A" (new) or "M" (modified), as        *)
(* get_commit_files lists it.  worktree holds the bytes of the file in the *)
(* working directory, index the bytes of its staged blob, and diff the     *)
(* lines git prints when get_changed_lines asks for the file's diff.       *)
(***************************************************************************)
Modes == {"pull_request", "push", "commit", "pytest"}

\* _is_github_event()
_is_github_event == mode \in {"pull_request", "push"}

\* _is_pull_request()
_is_pull_request == mode = "pull_request"

\* a byte that is no UTF-8 text, and what decode(errors='replace') makes of it
BadByte == "0xFF"

\* the NUL byte, which decodes to the character '\0'
NulByte == "0x00"

ReplacementChar == "U+FFFD"

\* bytes.decode(errors='replace') in _get_output
DecodeReplace(bytes) ==
    [i \in 1..Len(bytes) |-> IF bytes[i] = BadByte THEN ReplacementChar ELSE bytes[i]]

\* get_file_content_as_binary(filename): ok is FALSE for the None it returns
\* when the working file does not decode
get_file_content_as_binary ==
    IF _is_github_event \/ mode = "pytest"
    THEN IF \E i \in 1..Len(worktree) : worktree[i] = BadByte
         THEN [ok |-> FALSE, data |-> <<>>]
         ELSE [ok |-> TRUE, data |-> worktree]
    ELSE [ok |-> TRUE, data |-> DecodeReplace(index)]

\* the line boundaries of str.splitlines (those the model's alphabet has)
LineBreaks == {"\n", "\r", "\f"}

RECURSIVE splitlines(_)
\* data.splitlines(True)
splitlines(data) ==
    IF data = <<>> THEN <<>>
    ELSE LET B == {k \in 1..Len(data) : data[k] \in LineBreaks}
             i == Min(B)
             e == IF data[i] = "\r" /\ i < Len(data) /\ data[i + 1] = "\n"
                  THEN i + 1 ELSE i
         IN  IF B = {} THEN <<data>>
             ELSE <<Slice(data, 0, e)>> \o splitlines(Slice(data, e, Len(data)))

\* the mutant of new_file_line_nums: the last line is left out
new_file_line_nums_short(lines) ==
    << <<"1", "-">> \o IntToStr(Max({Len(lines) - 1, 0})) >>

\* line_nums = [f'1-{len(lines)}']
new_file_line_nums(lines) == << <<"1", "-">> \o IntToStr(Len(lines)) >>

\* The comparison get_changed_lines asks git for: a diff of `old` against
\* `new`.  'git diff A..B' compares two commits; 'git diff HEAD~ file' and
\* 'git diff-index HEAD file' (no --cached) compare a commit with the file
\* in the working directory.
diff_comparison ==
    IF _is_github_event
    THEN IF _is_pull_request
         THEN [old |-> "origin/base", new |-> "origin/head"]
         ELSE [old |-> "HEAD~", new |-> "worktree"]
    ELSE [old |-> "HEAD", new |-> "worktree"]

\* get_changed_lines, given the lines of git's output
get_changed_lines(output) ==
    LET headers == SelectSeq(output, LAMBDA line : StartsWith(line, <<"@", "@">>))
    IN  [n \in 1..Len(headers) |-> parse_diff_header(headers[n])]

\* the last line a hunk covers
HunkEnd(h) == IF h.d > 0 THEN h.c + h.d - 1 ELSE h.c

\* the hunks of a diff with no context lines, up to line MaxLine: new start c
\* and new count d (d < 0: omitted, one line; d = 0: a deletion, which alone
\* can sit at c = 0; git does not print a count of 1)
Hunks ==
    {h \in [c : 0..MaxLine, d : -1..MaxLine] :
        h.d # 1 /\ (h.c = 0 => h.d = 0) /\ HunkEnd(h) <= MaxLine}

\* hunks follow each other in ascending order, without overlap
HunkLists ==
    {hs \in UNION {[1..n -> Hunks] : n \in 0..MaxHunks} :
        \A n \in 1..(Len(hs) - 1) : HunkEnd(hs[n]) < hs[n + 1].c}

\* the lines of git's diff output for a list of hunks: the file header, then
\* per hunk its header line and a line of its body
DiffOutput(hs) ==
    IF hs = <<>> THEN <<>>
    ELSE << <<"-", "-", "-", " ", "a">>, <<"+", "+", "+", " ", "b">> >>
         \o Concat([n \in 1..Len(hs) |->
                      <<HunkHeader(1, IF hs[n].d = 0 THEN -1 ELSE 0, hs[n].c, hs[n].d),
                        IF hs[n].d = 0 THEN <<"-", "a">> ELSE <<"+", "a">> >>])

DiffOutputs == {DiffOutput(hs) : hs \in HunkLists}

\* get_changed_lines for each answer of git the model has, worked out once
ChangedLines == [output \in DiffOutputs |-> get_changed_lines(output)]

\* lines[i] is no IndexError for a list of n items
PyIndexOk(n, i) == -n <= i /\ i < n

\* the 1-based position of lines[i]: a negative i counts from the end
PyIndexPos(n, i) == IF i >= 0 THEN i + 1 ELSE n + i + 1

RECURSIVE trim_loop(_, _, _)
\* the loop of trim_trailing_whitespace_in_file over the yielded line numbers
trim_loop(nums, dry_run, st) ==
    IF nums = <<>> THEN st
    ELSE LET line_num == Head(nums)
             n == Len(st.lines)
             pos == PyIndexPos(n, line_num - 1)
             before == st.lines[pos]
             after == trim_trailing_whitespace(before)
             seen == [st EXCEPT !.inspected = @ \cup {pos}]
         IN  IF ~PyIndexOk(n, line_num - 1)
             THEN trim_loop(Tail(nums), dry_run,
                            [st EXCEPT !.skipped = Append(@, line_num)])
             ELSE IF before = after THEN trim_loop(Tail(nums), dry_run, seen)
             ELSE IF dry_run
             THEN trim_loop(Tail(nums), dry_run,
                            [seen EXCEPT !.modified_lines = Append(@, IntToStr(line_num))])
             ELSE trim_loop(Tail(nums), dry_run,
                            [seen EXCEPT !.modified_file = TRUE,
                                         !.lines[pos] = after,
                                         !.fixed = Append(@, line_num)])

\* the mutant of trim_lines: the file is fixed in a dry run too
trim_lines_ignoring_dry_run(lines, line_nums, dry_run) ==
    trim_loop(yield_changed_lines(line_nums), FALSE,
              [lines |-> lines, modified_file |-> FALSE, modified_lines |-> <<>>,
               fixed |-> <<>>, inspected |-> {}, skipped |-> <<>>])

\* lines 426-442 of trim_trailing_whitespace_in_file
trim_lines(lines, line_nums, dry_run) ==
    trim_loop(yield_changed_lines(line_nums), dry_run,
              [lines |-> lines, modified_file |-> FALSE, modified_lines |-> <<>>,
               fixed |-> <<>>, inspected |-> {}, skipped |-> <<>>])

\* trim_trailing_whitespace_in_file(filename, new_file, dry_run,
\* add_to_git_index) when git answers get_changed_lines with `output`: the
\* file and the index it leaves, and the record of the call (on_disk is the
\* working file as the call found it)
trim_trailing_whitespace_in_file(new_file, dry_run, add_to_git_index, output) ==
    LET got == get_file_content_as_binary
        lines == splitlines(got.data)
        line_nums == IF new_file THEN new_file_line_nums(lines)
                     ELSE ChangedLines[output]
        st == trim_lines(lines, line_nums, dry_run)
        wrote == got.ok /\ st.modified_file
        added == wrote /\ add_to_git_index
        written == IF wrote THEN Concat(st.lines) ELSE worktree
    IN  [worktree |-> written,
         index |-> IF added THEN written ELSE index,
         call |-> IF ~got.ok
                  THEN [op |-> "trim", new_file |-> new_file, dry_run |-> dry_run,
                        add_to_git_index |-> add_to_git_index, ok |-> FALSE,
                        on_disk |-> worktree,
                        wrote |-> FALSE, added |-> FALSE, retval |-> 0]
                  ELSE [op |-> "trim", new_file |-> new_file, dry_run |-> dry_run,
                        add_to_git_index |-> add_to_git_index, ok |-> TRUE,
                        on_disk |-> worktree,
                        lines |-> lines, line_nums |-> line_nums,
                        compared |-> IF new_file THEN <<>> ELSE <<diff_comparison>>,
                        inspected |-> st.inspected, skipped |-> st.skipped,
                        modified_lines |-> st.modified_lines, fixed |-> st.fixed,
                        after |-> st.lines, wrote |-> wrote, added |-> added,
                        retval |-> IF st.modified_lines # <<>> THEN 1 ELSE 0]]

\* 'do not merge'
DoNotMerge == <<"d", "o", " ", "n", "o", "t", " ", "m", "e", "r", "g", "e">>

RECURSIVE do_not_merge_loop(_, _, _)
\* the loop of check_do_not_merge_in_file: it returns at the first hit
do_not_merge_loop(nums, lines, st) ==
    IF nums = <<>> THEN st
    ELSE LET line_num == Head(nums)
             n == Len(lines)
             pos == PyIndexPos(n, line_num - 1)
         IN  IF ~PyIndexOk(n, line_num - 1)
             THEN do_not_merge_loop(Tail(nums), lines,
                                    [st EXCEPT !.skipped = Append(@, line_num)])
             ELSE IF Contains(Lower(lines[pos]), DoNotMerge)
             THEN [st EXCEPT !.inspected = @ \cup {pos}, !.retval = 1]
             ELSE do_not_merge_loop(Tail(nums), lines,
                                    [st EXCEPT !.inspected = @ \cup {pos}])

\* check_do_not_merge_in_file(filename, new_file) when git answers
\* get_changed_lines with `output`: the record of the call
check_do_not_merge_in_file(new_file, output) ==
    LET got == get_file_content_as_binary
        lines == splitlines(got.data)
        line_nums == IF new_file THEN new_file_line_nums(lines)
                     ELSE ChangedLines[output]
        st == do_not_merge_loop(yield_changed_lines(line_nums), lines,
                                [inspected |-> {}, skipped |-> <<>>, retval |-> 0])
    IN  IF ~got.ok
        THEN [op |-> "do_not_merge", new_file |-> new_file, ok |-> FALSE,
              wrote |-> FALSE, added |-> FALSE, retval |-> 0]
        ELSE [op |-> "do_not_merge", new_file |-> new_file, ok |-> TRUE,
              lines |-> lines, line_nums |-> line_nums,
              compared |-> IF new_file THEN <<>> ELSE <<diff_comparison>>,
              inspected |-> st.inspected, skipped |-> st.skipped,
              after |-> lines, wrote |-> FALSE, added |-> FALSE,
              retval |-> st.retval]

(***************************************************************************)
(* Spec: the line-scoped checks on one file of the commit.                 *)
(***************************************************************************)
\* the pieces file contents are made of
FileTokens ==
    {<<"a">>, <<" ">>, <<"\n">>, <<"\r">>,
     <<"D", "o", " ", "N", "O", "T", " ", "m", "e", "r", "g", "e">>}

\* the files of the model: every text of up to MaxTokens pieces, one file
\* that is not UTF-8 and one binary file, each with trailing whitespace
FileContents ==
    {Concat(ts) : ts \in UNION {[1..n -> FileTokens] : n \in 0..MaxTokens}}
    \cup {<<BadByte, " ", "\n">>, <<NulByte, " ", "\n">>}

\* what the working file has after the staged content: nothing, or a line
\* that was edited in and not staged
UnstagedEdits == {<<>>, <<"a", " ", "\n">>}

Init ==
    /\ mode \in Modes
    /\ status \in {"A", "M"}
    /\ index \in FileContents
    /\ IF mode = "commit" THEN \E edit \in UnstagedEdits : worktree = index \o edit
       ELSE worktree = index
    /\ IF status = "M" THEN diff \in DiffOutputs ELSE diff = <<>>
    /\ call = [op |-> "none"]

\* remove_trailing_white_space calls trim_trailing_whitespace_in_file on the
\* file, new_file being the file's status; add_to_git_index is true there
\* and false in the calls of the tests.  Trimming moves no line, and git is
\* taken to list the same hunks when it is asked again.
TrimTrailingWhitespaceInFile ==
    \E dry_run \in BOOLEAN, add_to_git_index \in BOOLEAN :
        \E r \in {trim_trailing_whitespace_in_file(status = "A", dry_run,
                                                   add_to_git_index, diff)} :
            /\ worktree' = r.worktree
            /\ index' = r.index
            /\ call' = r.call
            /\ UNCHANGED <<mode, status, diff>>

\* check_do_not_merge calls check_do_not_merge_in_file on the file
CheckDoNotMergeInFile ==
    /\ call' = check_do_not_merge_in_file(status = "A", diff)
    /\ UNCHANGED <<mode, status, worktree, index, diff>>

Next == TrimTrailingWhitespaceInFile \/ CheckDoNotMergeInFile

Spec == Init /\ [][Next]_vars

(***************************************************************************)
(* The claims about the line-scoped checks.                                *)
(***************************************************************************)
\* the version of the file the checkers read (get_file_content_as_binary)
content_source ==
    IF _is_github_event \/ mode = "pytest" THEN "worktree" ELSE "index"

\* the change set of a call: the line numbers its line_nums stand for
ChangeSet(c) ==
    LET nums == yield_changed_lines(c.line_nums)
    IN  {nums[k] : k \in 1..Len(nums)}

\* a call of one of the two checks that read the file
Checked(c) == c.op \in {"trim", "do_not_merge"} /\ c.ok

\* the predicate of the check the call made
Violates(c, line) ==
    IF c.op = "trim" THEN trim_trailing_whitespace(line) # line
    ELSE Contains(Lower(line), DoNotMerge)

\* no line of the text has trailing whitespace
NoTrailingWhitespace(text) ==
    LET lines == splitlines(text)
    IN  \A k \in 1..Len(lines) : trim_trailing_whitespace(lines[k]) = lines[k]

\* a fix of a new file that read it
FixOfNewFile(c) == c.op = "trim" /\ c.ok /\ c.new_file /\ ~c.dry_run

\* a dry run on a new file
DryRunOfNewFile(c) == c.op = "trim" /\ c.new_file /\ c.dry_run

\* the content the checkers would read now is free of trailing whitespace
CleanRead ==
    get_file_content_as_binary.ok
        => NoTrailingWhitespace(get_file_content_as_binary.data)

\* C1: on a modified file the two checks look only at lines whose 1-based
\* number is in the change set: every inspected line is one of them, the
\* verdict of a report (do-not-merge, dry-run trim) is 1 exactly when one of
\* them violates the predicate, and no other line is rewritten.
C1_ScopedToChangeSet ==
    (Checked(call) /\ ~call.new_file) =>
        LET S == ChangeSet(call)
            n == Len(call.lines)
            bad == {k \in 1..n : Violates(call, call.lines[k])}
        IN  /\ call.inspected \subseteq S
            /\ (call.op = "do_not_merge" \/ call.dry_run)
                  => (call.retval = 1 <=> S \cap bad # {})
            /\ \A k \in (1..n) \ S : call.after[k] = call.lines[k]

\* C5: the report-only operations (dry-run trim, do-not-merge) write nothing
\* and stage nothing: file content and index are what they were.
C5_ReportOnly ==
    [][(call'.op = "do_not_merge" \/ (call'.op = "trim" /\ call'.dry_run))
          => /\ worktree' = worktree
             /\ index' = index
             /\ ~call'.wrote
             /\ ~call'.added]_vars

\* a dry run that found trailing whitespace and returned 1
C5_Witness == call.op = "trim" /\ call.dry_run /\ call.ok /\ call.retval = 1

\* the new side the claim gives the comparison of each context
ClaimedNewSide ==
    CASE mode = "pull_request" -> "origin/head"
      [] mode = "push" -> "HEAD"
      [] OTHER -> "index"

\* the old side of the comparison of each context
ClaimedOldSide ==
    CASE mode = "pull_request" -> "origin/base"
      [] mode = "push" -> "HEAD~"
      [] OTHER -> "HEAD"

\* Two versions have the same file content.  A GitHub event runs on a clean
\* checkout of the head commit: HEAD, origin/head, index and working file
\* agree.  Locally the index and the working file agree when nothing is
\* left unstaged.
SameContent(v, w) ==
    \/ v = w
    \/ /\ _is_github_event
       /\ {v, w} \subseteq {"HEAD", "origin/head", "index", "worktree"}
    \/ /\ ~_is_github_event
       /\ {v, w} = {"index", "worktree"}
       /\ worktree = index

\* C6: the change set is resolved against base..head for a pull request,
\* HEAD~..HEAD for a push and HEAD..index for a local commit, and its line
\* numbers are those of the version the checkers read.
C6_SameVersion ==
    (Checked(call) /\ ~call.new_file /\ ~call.wrote /\ mode # "pytest") =>
        /\ call.compared[1].old = ClaimedOldSide
        /\ SameContent(call.compared[1].new, ClaimedNewSide)
        /\ SameContent(call.compared[1].new, content_source)

\* a new file with trailing whitespace, once fixed, is rewritten without any
\* and staged when add_to_git_index is true
FixRewrites ==
    FixOfNewFile(call) =>
        /\ (\E k \in 1..Len(call.lines) : Violates(call, call.lines[k]))
              => call.wrote
        /\ call.wrote => NoTrailingWhitespace(worktree)
        /\ (call.wrote /\ call.add_to_git_index)
              => (call.added /\ index = worktree)

\* the checkers read what the fix left: the working file in a GitHub event
\* and under pytest, the index when the fix staged the file
ReadsFixedContent(c) == content_source = "worktree" \/ c.add_to_git_index

\* the content the last call read was free of trailing whitespace
CleanBefore(c) ==
    Checked(c) =>
        \A k \in 1..Len(c.lines) :
            trim_trailing_whitespace(c.lines[k]) = c.lines[k]

\* C4 as it holds: a fix of a new file it can read rewrites the file without
\* trailing whitespace and stages it when add_to_git_index is true; then the
\* checkers read clean content if they read what the fix left (working file
\* in a GitHub event or under pytest, index after staging), clean content
\* stays clean under every call, and a dry run on clean content returns 0;
\* a second fix with the same add_to_git_index changes neither file nor index.
C4_FixThenClean ==
    /\ [](/\ FixRewrites
          /\ (FixOfNewFile(call) /\ ReadsFixedContent(call)) => CleanRead
          /\ (call.op # "none" /\ CleanBefore(call)) => CleanRead
          /\ (DryRunOfNewFile(call) /\ CleanRead) => call.retval = 0)
    /\ [][(FixOfNewFile(call) /\ call'.op = "trim" /\ ~call'.dry_run
             /\ call'.add_to_git_index = call.add_to_git_index)
            => (worktree' = worktree /\ index' = index)]_vars

\* a new file had trailing whitespace, and the fix rewrote and staged it
C4_Witness ==
    /\ FixOfNewFile(call)
    /\ call.wrote
    /\ call.added
    /\ call.lines # call.after
    /\ CleanRead

\* C4 as stated: after a fix of a new file with trailing whitespace the file
\* is rewritten without any and staged when add_to_git_index is true, the dry
\* run that follows returns 0, and a second fix changes nothing.
C4_AsStated ==
    /\ [](FixRewrites)
    /\ [][(FixOfNewFile(call) /\ call'.op = "trim" /\ call'.dry_run)
            => call'.retval = 0]_vars
    /\ [][(FixOfNewFile(call) /\ call'.op = "trim" /\ ~call'.dry_run)
            => (worktree' = worktree /\ index' = index)]_vars

(***************************************************************************)
(* check_filename: the Windows rules for one path of the repository.       *)
(***************************************************************************)
\* the longest path check_filename lets through
max_subpath_chars == 208

ILLEGAL_CHARS == {"\\", "/", ":", "*", "?", "\"", "<", ">", "|"}

DEVICE_NAMES ==
    {<<"c", "o", "n">>, <<"p", "r", "n">>, <<"a", "u", "x">>, <<"n", "u", "l">>}
    \cup {<<"c", "o", "m", Digits[i]>> : i \in 2..10}
    \cup {<<"l", "p", "t", Digits[i]>> : i \in 2..10}

\* the characters of the model with ord(ch) <= 31
ControlChars == {"\t", "\n", "\r", "\f"}

\* the characters of the model that str.encode('ascii') refuses
NonAsciiChars == {"U+00E9", ReplacementChar}

\* Path(filepath).name on a POSIX system: the last component of the path
\* that is neither empty nor '.', or '' when there is none
PathName(filepath) ==
    LET parts == SelectSeq(Split(filepath, "/"),
                           LAMBDA part : part # <<>> /\ part # <<".">>)
    IN  IF parts = <<>> THEN <<>> ELSE parts[Len(parts)]

\* Path(filename).stem: the name up to its last dot, when that dot is
\* neither the first nor the last character
PathStem(filename) ==
    LET dots == {i \in 1..Len(filename) : filename[i] = "."}
    IN  IF dots # {} /\ 1 < Max(dots) /\ Max(dots) < Len(filename)
        THEN Slice(filename, 0, Max(dots) - 1)
        ELSE filename

\* check_filename(filepath) for a non-empty path
check_filename(filepath) ==
    LET filename == PathName(filepath)
        last == filepath[Len(filepath)]
    IN  IF \E i \in 1..Len(filename) :
              filename[i] \in ILLEGAL_CHARS \/ filename[i] \in ControlChars
        THEN 1
        ELSE IF PathStem(filename) \in DEVICE_NAMES THEN 1
        ELSE IF last = "." \/ last \in Whitespace THEN 1
        ELSE IF \E i \in 1..Len(filepath) : filepath[i] \in NonAsciiChars THEN 1
        ELSE IF Len(filepath) > max_subpath_chars THEN 1
        ELSE 0

(***************************************************************************)
(* SpecName: check_filename on the paths of the model.                     *)
(***************************************************************************)
\* the pieces the end of a path is made of
NameTokens ==
    {<<"c", "o", "n">>, <<"C", "O", "N">>, <<"l", "p", "t", "1">>, <<"x">>,
     <<".">>, <<"*">>, <<" ">>, <<"U+00E9">>, <<"\t">>, <<"/">>}

\* a directory name of n characters and its slash
LongDirectory(n) == [k \in 1..(n + 1) |-> IF k <= n THEN "d" ELSE "/"]

\* the directories the paths are in: none, or one that leaves three
\* characters up to max_subpath_chars
Directories == {<<>>, LongDirectory(max_subpath_chars - 4)}

\* the paths of the model: a directory and one to MaxParts pieces
FilePaths ==
    {dir \o Concat(ts) :
        dir \in Directories,
        ts \in UNION {[1..n -> NameTokens] : n \in 1..MaxParts}}

InitName ==
    /\ NoRepository
    /\ \E filepath \in FilePaths : call = [op |-> "filepath", filepath |-> filepath]

CheckFilename ==
    /\ call.op = "filepath"
    /\ call' = [op |-> "check_filename", filepath |-> call.filepath,
                retval |-> check_filename(call.filepath)]
    /\ UNCHANGED <<mode, status, worktree, index, diff>>

NextName == CheckFilename

SpecName == InitName /\ [][NextName]_vars

\* C7: check_filename returns 1 exactly when a rule is violated: a character
\* of the file name is illegal or a control character, the stem of the file
\* name is a reserved device name in any letter case, the path ends with '.'
\* or whitespace, the path is not ASCII, or it has more than 208 characters.
C7_FilenameRules ==
    call.op = "check_filename" =>
        LET filepath == call.filepath
            filename == PathName(filepath)
            last == filepath[Len(filepath)]
        IN  call.retval = 1 <=>
              \/ \E i \in 1..Len(filename) :
                    filename[i] \in ILLEGAL_CHARS \/ filename[i] \in ControlChars
              \/ Lower(PathStem(filename)) \in DEVICE_NAMES
              \/ last = "." \/ last \in Whitespace
              \/ \E i \in 1..Len(filepath) : filepath[i] \in NonAsciiChars
              \/ Len(filepath) > 208

(***************************************************************************)
(* check_filenames: case-folding collisions between the files of the       *)
(* commit and the files of the branch.                                     *)
(***************************************************************************)
\* the paths of the model, in the byte order git lists them in
PathUniverse ==
    << <<"A">>, <<"B">>, <<"a">>, <<"a", "*">>, <<"b">>, <<"c">> >>

Paths == [k \in 1..MaxPaths |-> PathUniverse[k]]

\* What a commit makes of each path: "-" the path is not in the repository,
\* "T" it is in the tree and untouched, "M" modified, "A" added.
Commits == [1..MaxPaths -> {"-", "T", "M", "A"}]

\* the paths of the sequence Paths whose number is in S, in their order
RECURSIVE PathsIn(_, _)
PathsIn(S, k) ==
    IF k > MaxPaths THEN <<>>
    ELSE (IF k \in S THEN <<Paths[k]>> ELSE <<>>) \o PathsIn(S, k + 1)

\* get_branch_files(): 'git ls-tree -r <branch> --name-only'.  Before a local
\* commit the branch has the files of HEAD; in a GitHub event it has the
\* commit that is checked, the added files with it.
get_branch_files(commit) ==
    PathsIn({k \in 1..MaxPaths :
                \/ commit[k] \in {"T", "M"}
                \/ commit[k] = "A" /\ _is_github_event}, 1)

\* get_commit_files(): the modified and the added files, each list in git's
\* order, the dictionary's keys in the order git's output brings them up
get_commit_files(commit) ==
    LET changed == {k \in 1..MaxPaths : commit[k] \in {"M", "A"}}
        first == commit[Min(changed)]
        types == IF changed = {} THEN <<>>
                 ELSE IF \A k \in changed : commit[k] = first THEN <<first>>
                 ELSE <<first, IF first = "M" THEN "A" ELSE "M">>
    IN  [n \in 1..Len(types) |->
            [commit_type |-> types[n],
             files |-> PathsIn({k \in changed : commit[k] = types[n]}, 1)]]

\* files['M'] + files['A']
commit_hook_files(commit) ==
    PathsIn({k \in 1..MaxPaths : commit[k] = "M"}, 1)
        \o PathsIn({k \in 1..MaxPaths : commit[k] = "A"}, 1)

\* d[key] = value on a dictionary kept as a function
DictSet(d, key, value) ==
    [x \in DOMAIN d \cup {key} |-> IF x = key THEN value ELSE d[x]]

RECURSIVE lower2case(_, _)
\* {f.lower(): f for f in files}: a later file replaces an earlier one
lower2case(files, d) ==
    IF files = <<>> THEN d
    ELSE lower2case(Tail(files), DictSet(d, Lower(Head(files)), Head(files)))

RECURSIVE collision_loop(_, _)
\* the loop of check_filenames over the files of the commit: TRUE when it
\* returns 1
collision_loop(files, manifest_lower2case) ==
    IF files = <<>> THEN FALSE
    ELSE LET f == Head(files)
             flower == Lower(f)
         IN  IF flower \in DOMAIN manifest_lower2case
                /\ manifest_lower2case[flower] # f
             THEN TRUE
             ELSE collision_loop(Tail(files),
                                 DictSet(manifest_lower2case, flower, f))

\* the mutant of collision_loop: no collision is ever found
collision_loop_blind(files, manifest_lower2case) == FALSE

RECURSIVE SumCheckFilename(_)
\* retval += check_filename(filepath) for filepath in files
SumCheckFilename(files) ==
    IF files = <<>> THEN 0
    ELSE check_filename(Head(files)) + SumCheckFilename(Tail(files))

\* check_filenames(files) on a system that is Windows or not
check_filenames(files, commit, windows) ==
    LET commit_files == get_commit_files(commit)
        flat == Concat([n \in 1..Len(commit_files) |-> commit_files[n].files])
    IN  IF ~windows /\ collision_loop(flat, lower2case(get_branch_files(commit), <<>>))
        THEN 1
        ELSE SumCheckFilename(files)

(***************************************************************************)
(* SpecNames: check_filenames on every commit over the paths of the model. *)
(***************************************************************************)
InitNames ==
    /\ mode \in {"commit", "push", "pull_request"}
    /\ status = "A"
    /\ worktree = <<>>
    /\ index = <<>>
    /\ diff = <<>>
    /\ \E commit \in Commits, windows \in BOOLEAN :
          call = [op |-> "files", commit |-> commit, windows |-> windows]

CheckFilenames ==
    /\ call.op = "files"
    /\ call' = [op |-> "check_filenames", commit |-> call.commit,
                windows |-> call.windows,
                branch_files |-> get_branch_files(call.commit),
                commit_files |-> get_commit_files(call.commit),
                files |-> commit_hook_files(call.commit),
                retval |-> check_filenames(commit_hook_files(call.commit),
                                           call.commit, call.windows)]
    /\ UNCHANGED <<mode, status, worktree, index, diff>>

NextNames == CheckFilenames

SpecNames == InitNames /\ [][NextNames]_vars

\* a file of the commit differs only by letter case from another path of the
\* branch or of the commit
CaseCollision(c) ==
    \E i \in 1..Len(c.files) :
        \E g \in {c.branch_files[k] : k \in 1..Len(c.branch_files)}
                    \cup {c.files[k] : k \in 1..Len(c.files)} :
            g # c.files[i] /\ Lower(g) = Lower(c.files[i])

\* C8: where the check runs (not on Windows), check_filenames returns a
\* nonzero verdict whenever a modified or added file of the commit differs
\* only by letter case from a different path of the branch manifest or of
\* the commit, locally, in a push and in a pull request.
C8_CaseCollision ==
    (call.op = "check_filenames" /\ ~call.windows /\ CaseCollision(call))
        => call.retval # 0

(***************************************************************************)
(* check_commit_msg and jira_id_pattern.                                   *)
(***************************************************************************)
HARD_SIZE_THRESHOLD == 99

SOFT_SIZE_THRESHOLD == 5

LARGE_FILE_MARKER == <<"L", "A", "R", "G", "E", "_", "F", "I", "L", "E">>

NO_JIRA_MARKER == <<"N", "O", "_", "J", "I", "R", "A">>

\* r'\b[A-Z]{2,8}-[0-9]{1,5}\b'
jira_id_pattern ==
    Cat(<<WordBoundary, Rep(In(UpperChars), 2, 8), Chr("-"),
          Rep(In(DigitChars), 1, 5), WordBoundary>>)

\* the mutant of jira_id_search: the pattern without its two \b
jira_id_search_unbounded(message) ==
    ReSearch(Cat(<<Rep(In(UpperChars), 2, 8), Chr("-"),
                   Rep(In(DigitChars), 1, 5)>>), message)

\* jira_id_pattern.search(message) is not None
jira_id_search(message) == ReSearch(jira_id_pattern, message)

\* r'^Merge ((remote-tracking )?branch|commit) \'.+?\'( of [^\s]+)? into .+'
merge_branch_pattern ==
    Cat(<<Bol, Lit(<<"M", "e", "r", "g", "e", " ">>),
          Alt(<<Cat(<<Opt(Lit(<<"r", "e", "m", "o", "t", "e", "-", "t", "r", "a", "c", "k", "i", "n", "g", " ">>)),
                      Lit(<<"b", "r", "a", "n", "c", "h">>)>>),
                Lit(<<"c", "o", "m", "m", "i", "t">>)>>),
          Lit(<<" ", "'">>), Plus(Dot), Chr("'"),
          Opt(Cat(<<Lit(<<" ", "o", "f", " ">>), Plus(NotIn(Whitespace))>>)),
          Lit(<<" ", "i", "n", "t", "o", " ">>), Plus(Dot)>>)

\* r'^Merge pull request #.+ from .+'
merge_pull_request_pattern ==
    Cat(<<Bol, Lit(<<"M", "e", "r", "g", "e", " ", "p", "u", "l", "l", " ", "r", "e", "q", "u", "e", "s", "t", " ", "#">>), Plus(Dot),
          Lit(<<" ", "f", "r", "o", "m", " ">>), Plus(Dot)>>)

RECURSIVE size_loop(_, _)
\* the loop of check_commit_msg over the files, each file given by its size
\* in MB: TRUE when it returns 1
size_loop(files, message) ==
    IF files = <<>> THEN FALSE
    ELSE IF Head(files) > HARD_SIZE_THRESHOLD THEN TRUE
    ELSE IF Head(files) > SOFT_SIZE_THRESHOLD
            /\ ~Contains(message, LARGE_FILE_MARKER) THEN TRUE
    ELSE size_loop(Tail(files), message)

\* the mutant of check_commit_msg: merge messages are checked like the rest
check_commit_msg_no_merge(message, files) ==
    IF ~Contains(message, NO_JIRA_MARKER) /\ ~jira_id_search(message) THEN 1
    ELSE IF size_loop(files, message) THEN 1
    ELSE 0

\* check_commit_msg(message, files)
check_commit_msg(message, files) ==
    IF ReMatch(merge_branch_pattern, message) THEN 0
    ELSE IF ReMatch(merge_pull_request_pattern, message) THEN 0
    ELSE IF ~Contains(message, NO_JIRA_MARKER) /\ ~jira_id_search(message) THEN 1
    ELSE IF size_loop(files, message) THEN 1
    ELSE 0

(***************************************************************************)
(* SpecMsg: check_commit_msg on messages put together from the pieces of   *)
(* the merge templates, with and without a ticket or the marker.           *)
(***************************************************************************)
MessageStarts ==
    {<<>>,
     <<"M", "e", "r", "g", "e", " ">>,
     <<"m", "e", "r", "g", "e", " ">>,
     <<" ", "M", "e", "r", "g", "e", " ">>}

MessageKinds ==
    {<<>>,
     <<"b", "r", "a", "n", "c", "h", " ">>,
     <<"r", "e", "m", "o", "t", "e", "-", "t", "r", "a", "c", "k", "i", "n", "g", " ", "b", "r", "a", "n", "c", "h", " ">>,
     <<"c", "o", "m", "m", "i", "t", " ">>,
     <<"r", "e", "m", "o", "t", "e", "-", "t", "r", "a", "c", "k", "i", "n", "g", " ", "c", "o", "m", "m", "i", "t", " ">>,
     <<"p", "u", "l", "l", " ", "r", "e", "q", "u", "e", "s", "t", " ">>}

MessageNames ==
    {<<>>,
     <<"'", "x", "'">>,
     <<"'", "'">>,
     <<"'", "x", "\n", "y", "'">>,
     <<"#", "1">>,
     <<"#">>}

MessageSources ==
    {<<>>,
     <<" ", "o", "f", " ", "r">>,
     <<" ", "o", "f", " ", "r", " ", "s">>,
     <<" ", "f", "r", "o", "m", " ", "p">>,
     <<" ", "f", "r", "o", "m", " ">>}

MessageTargets ==
    {<<>>,
     <<" ", "i", "n", "t", "o", " ", "y">>,
     <<" ", "i", "n", "t", "o", " ">>,
     <<" ", "i", "n", "t", "o", " ", "\n">>,
     <<"i", "n", "t", "o", " ", "y">>}

MessageEnds ==
    {<<>>,
     <<" ", "N", "O", "_", "J", "I", "R", "A">>,
     <<" ", "A", "B", "-", "1">>,
     <<" ", "a", "b", "-", "1">>,
     <<"\n", "A", "B", "-", "1">>}

Messages ==
    {a \o b \o c \o d \o e \o f :
        a \in MessageStarts, b \in MessageKinds, c \in MessageNames,
        d \in MessageSources, e \in MessageTargets, f \in MessageEnds}

\* the sizes in MB of the files of the commit
FileSizeLists == {<<>>, <<1>>, <<6>>, <<100>>}

InitMsg ==
    /\ NoRepository
    /\ \E message \in Messages, files \in FileSizeLists :
          call = [op |-> "message", message |-> message, files |-> files]

CheckCommitMsg ==
    /\ call.op = "message"
    /\ call' = [op |-> "check_commit_msg", message |-> call.message,
                files |-> call.files,
                retval |-> check_commit_msg(call.message, call.files)]
    /\ UNCHANGED <<mode, status, worktree, index, diff>>

NextMsg == CheckCommitMsg

SpecMsg == InitMsg /\ [][NextMsg]_vars

\* the text lit stands in m at offset p
At(m, p, lit) == p + Len(lit) <= Len(m) /\ Slice(m, p, p + Len(lit)) = lit

\* ' into ' and one more character of the same line stand in m at offset p
IntoAt(m, p) ==
    /\ At(m, p, <<" ", "i", "n", "t", "o", " ">>)
    /\ p + 6 < Len(m)
    /\ m[p + 7] # "\n"

\* what git merges by name
MergeKinds ==
    {<<"b", "r", "a", "n", "c", "h">>,
     <<"r", "e", "m", "o", "t", "e", "-", "t", "r", "a", "c", "k", "i", "n", "g", " ", "b", "r", "a", "n", "c", "h">>,
     <<"c", "o", "m", "m", "i", "t">>}

\* m begins like git's merge message: Merge <kind> '<name>' [of <source>]
\* into <target>, the name within one line, the source without whitespace
IsMergeBranchMessage(m) ==
    \E kind \in MergeKinds :
        LET head == <<"M", "e", "r", "g", "e", " ">> \o kind \o <<" ", "'">>
            h == Len(head)
        IN  /\ StartsWith(m, head)
            /\ \E quote \in (h + 1)..(Len(m) - 1) :
                  /\ m[quote + 1] = "'"
                  /\ \A i \in (h + 1)..quote : m[i] # "\n"
                  /\ \/ IntoAt(m, quote + 1)
                     \/ /\ At(m, quote + 1, <<" ", "o", "f", " ">>)
                        /\ \E r \in (quote + 6)..Len(m) :
                              /\ \A i \in (quote + 6)..r : m[i] \notin Whitespace
                              /\ IntoAt(m, r)

\* m begins like GitHub's merge message: Merge pull request #<N> from
\* <source>, all in one line
IsPullRequestMessage(m) ==
    LET head == <<"M", "e", "r", "g", "e", " ", "p", "u", "l", "l", " ", "r", "e", "q", "u", "e", "s", "t", " ", "#">>
        h == Len(head)
    IN  /\ StartsWith(m, head)
        /\ \E from \in (h + 1)..Len(m) :
              /\ \A i \in (h + 1)..from : m[i] # "\n"
              /\ At(m, from, <<" ", "f", "r", "o", "m", " ">>)
              /\ from + 6 < Len(m)
              /\ m[from + 7] # "\n"

\* letters and digits
AlphanumericChars == UpperChars \cup LowerChars \cup DigitChars

\* m has a token of 2 to 8 upper-case letters, a hyphen and 1 to 5 digits
\* with no character of `glue` right before it or right after it
HasJiraToken(m, glue) ==
    \E p \in 0..Len(m), n \in 2..8, k \in 1..5 :
        /\ p + n + 1 + k <= Len(m)
        /\ \A i \in 1..n : m[p + i] \in UpperChars
        /\ m[p + n + 1] = "-"
        /\ \A i \in 1..k : m[p + n + 1 + i] \in DigitChars
        /\ p = 0 \/ m[p] \notin glue
        /\ p + n + 1 + k = Len(m) \/ m[p + n + k + 2] \notin glue

\* C9: with no files, check_commit_msg returns 0 for a message that follows
\* a merge template; for any other message it returns 0 exactly when the
\* message has a Jira ticket ID or the marker NO_JIRA, and 1 otherwise.
C9_CommitMessage ==
    (call.op = "check_commit_msg" /\ call.files = <<>>) =>
        call.retval =
            (IF IsMergeBranchMessage(call.message)
                \/ IsPullRequestMessage(call.message) THEN 0
             ELSE IF HasJiraToken(call.message, AlphanumericChars)
                     \/ Contains(call.message, NO_JIRA_MARKER) THEN 0
             ELSE 1)

\* a merge message without ticket and marker is let through
C9_Witness ==
    /\ call.op = "check_commit_msg"
    /\ call.files = <<>>
    /\ call.message = <<"M", "e", "r", "g", "e", " ", "r", "e", "m", "o", "t", "e", "-", "t", "r", "a", "c", "k", "i", "n", "g", " ", "b", "r", "a", "n", "c", "h", " ", "'", "x", "'", " ", "o", "f", " ", "r", " ", "i", "n", "t", "o", " ", "y">>
    /\ call.retval = 0

(***************************************************************************)
(* SpecJira: jira_id_pattern on tokens of every length up to the bounds,   *)
(* with every kind of neighbour.                                           *)
(***************************************************************************)
JiraLetters == <<"A", "B", "C", "D", "E", "F", "G", "H", "I", "J", "K">>

JiraDigits == <<"1", "2", "3", "4", "5", "6", "7", "8">>

\* what stands before the letters and after the digits
JiraNeighbours ==
    {<<>>, <<" ">>, <<"\n">>, <<"(">>, <<"-">>, <<"_">>, <<"a">>, <<"Z">>, <<"1">>}

\* what stands between the letters and the digits
JiraHyphens == {<<"-">>, <<>>, <<"_">>}

JiraTexts ==
    {before \o SubSeq(JiraLetters, 1, n) \o hyphen \o SubSeq(JiraDigits, 1, k)
            \o after :
        before \in JiraNeighbours, n \in 0..MaxLetters, hyphen \in JiraHyphens,
        k \in 0..MaxDigits, after \in JiraNeighbours}

InitJira ==
    /\ NoRepository
    /\ \E message \in JiraTexts : call = [op |-> "text", message |-> message]

JiraIdSearch ==
    /\ call.op = "text"
    /\ call' = [op |-> "jira_id_pattern", message |-> call.message,
                found |-> jira_id_search(call.message)]
    /\ UNCHANGED <<mode, status, worktree, index, diff>>

NextJira == JiraIdSearch

SpecJira == InitJira /\ [][NextJira]_vars

\* C10 as it holds: jira_id_pattern finds a match exactly when the message
\* has a token of 2 to 8 upper-case letters, a hyphen and 1 to 5 digits that
\* has no word character (letter, digit or underscore) right before it or
\* right after it.
C10_JiraToken ==
    call.op = "jira_id_pattern" =>
        (call.found <=> HasJiraToken(call.message, WordChars))

\* a token with an underscore after it is not found
C10_Witness ==
    /\ call.op = "jira_id_pattern"
    /\ call.message = <<"A", "B", "-", "1", "_">>
    /\ ~call.found

\* C10 as stated: a match exactly when the message has such a token with no
\* alphanumeric character right before it or right after it.
C10_AsStated ==
    call.op = "jira_id_pattern" =>
        (call.found <=> HasJiraToken(call.message, AlphanumericChars))

(***************************************************************************)
(* SpecSize: check_commit_msg on commits with files of every size around   *)
(* the two thresholds.  A file is given by its size in MB, st_size /       *)
(* 1024**2, which Python computes exactly.                                 *)
(***************************************************************************)
\* sizes below, at and above SOFT_SIZE_THRESHOLD and HARD_SIZE_THRESHOLD
FileSizes == {1, SOFT_SIZE_THRESHOLD, SOFT_SIZE_THRESHOLD + 1,
              HARD_SIZE_THRESHOLD, HARD_SIZE_THRESHOLD + 1}

\* files['M'] + files['A'] of commit_msg_hook, by size
SizedFiles == UNION {[1..n -> FileSizes] : n \in 0..MaxFiles}

\* messages with and without ticket, markers and merge template
SizeMessages ==
    {<<"f", "i", "x">>,
     <<"A", "B", "-", "1">>,
     <<"A", "B", "-", "1", " ", "L", "A", "R", "G", "E", "_", "F", "I", "L", "E">>,
     <<"N", "O", "_", "J", "I", "R", "A", " ", "l", "a", "r", "g", "e", "_", "f", "i", "l", "e">>,
     <<"N", "O", "_", "J", "I", "R", "A", " ", "L", "A", "R", "G", "E", "_", "F", "I", "L", "E">>,
     <<"M", "e", "r", "g", "e", " ", "b", "r", "a", "n", "c", "h", " ", "'", "x", "'", " ", "i", "n", "t", "o", " ", "y">>,
     <<"M", "e", "r", "g", "e", " ", "b", "r", "a", "n", "c", "h", " ", "'", "x", "'", " ", "i", "n", "t", "o", " ", "y", " ", "L", "A", "R", "G", "E", "_", "F", "I", "L", "E">>,
     <<"M", "e", "r", "g", "e", " ", "p", "u", "l", "l", " ", "r", "e", "q", "u", "e", "s", "t", " ", "#", "1", " ", "f", "r", "o", "m", " ", "p">>}

InitSize ==
    /\ NoRepository
    /\ \E message \in SizeMessages, files \in SizedFiles :
          call = [op |-> "sized", message |-> message, files |-> files]

CheckCommitMsgSizes ==
    /\ call.op = "sized"
    /\ call' = [op |-> "check_commit_msg_sizes", message |-> call.message,
                files |-> call.files,
                retval |-> check_commit_msg(call.message, call.files)]
    /\ UNCHANGED <<mode, status, worktree, index, diff>>

NextSize == CheckCommitMsgSizes

SpecSize == InitSize /\ [][NextSize]_vars

\* C11: check_commit_msg returns a nonzero verdict whenever a file of the
\* commit is larger than 99 MB, whatever the message says, and whenever a
\* file is larger than 5 MB (and not larger than 99 MB) and the message does
\* not contain LARGE_FILE.
C11_SizeCeilings ==
    call.op = "check_commit_msg_sizes" =>
        /\ (\E k \in 1..Len(call.files) : call.files[k] > 99)
              => call.retval # 0
        /\ (/\ \E k \in 1..Len(call.files) :
                  call.files[k] > 5 /\ call.files[k] <= 99
            /\ ~Contains(call.message, LARGE_FILE_MARKER))
              => call.retval # 0

\* C11 for the messages that are no merge message: it holds there
C11_NoMergeMessage ==
    (/\ call.op = "check_commit_msg_sizes"
     /\ ~IsMergeBranchMessage(call.message)
     /\ ~IsPullRequestMessage(call.message))
        => C11_SizeCeilings

(***************************************************************************)
(* check_file_content: the content rules for one file.                     *)
(***************************************************************************)
DO_NOT_COMMIT == <<"d", "o", " ", "n", "o", "t", " ", "c", "o", "m", "m", "i", "t">>

TERMINATING_NEWLINE_EXTS == {<<".", "c">>, <<".", "c", "p", "p">>, <<".", "h">>, <<".", "i", "n", "l">>}

\* the extensions of the C++ checks, line 644
CppExts == {<<".", "c", "p", "p">>, <<".", "h">>, <<".", "i", "n", "l">>}

\* '^\\s*\\#\\s*include\\s*[\\"\\<][^\\"\\>]*\\\\' with re.MULTILINE
cpp_include_backslash_pattern ==
    Cat(<<Bol, Star(In(Whitespace)), Chr("#"), Star(In(Whitespace)),
          Lit(<<"i", "n", "c", "l", "u", "d", "e">>), Star(In(Whitespace)), In({"\"", "<"}),
          Star(NotIn({"\"", ">"})), Chr("\\")>>)

\* r'\bthrow\s+(std\s*::\s*)?exception\s*\('
cpp_throw_std_exception_pattern ==
    Cat(<<WordBoundary, Lit(<<"t", "h", "r", "o", "w">>), Plus(In(Whitespace)),
          Opt(Cat(<<Lit(<<"s", "t", "d">>), Star(In(Whitespace)), Lit(<<":", ":">>),
                    Star(In(Whitespace))>>)),
          Lit(<<"e", "x", "c", "e", "p", "t", "i", "o", "n">>), Star(In(Whitespace)), Chr("(")>>)

\* any(map(lambda ext: filename.endswith(ext), exts))
EndsWithAny(filename, exts) == \E ext \in exts : EndsWith(filename, ext)

\* line without the line break data.splitlines(True) leaves at its end
StripBreak(line) ==
    LET n == Len(line)
    IN  IF n >= 2 /\ line[n - 1] = "\r" /\ line[n] = "\n" THEN Slice(line, 0, n - 2)
        ELSE IF n >= 1 /\ line[n] \in LineBreaks THEN Slice(line, 0, n - 1)
        ELSE line

\* data.splitlines()
splitlines_plain(data) ==
    LET kept == splitlines(data)
    IN  [k \in 1..Len(kept) |-> StripBreak(kept[k])]

RECURSIVE cpp_loop(_, _)
\* the loop over the lines at lines 646-653: the diagnostics it prints, with
\* the line counter num
cpp_loop(lines, num) ==
    IF lines = <<>> THEN <<>>
    ELSE IF ReSearch(cpp_include_backslash_pattern, Head(lines))
    THEN <<[fail |-> "Backslash in #include", num |-> num]>>
    ELSE IF ReSearch(cpp_throw_std_exception_pattern, Head(lines))
    THEN <<[fail |-> "std::exception thrown", num |-> num]>>
    ELSE cpp_loop(Tail(lines), num + 1)

\* the mutant of check_file_content: the checks of C++ sources come first
check_file_content_cpp_first(filename, data) ==
    LET cpp == IF EndsWithAny(filename, CppExts)
               THEN cpp_loop(splitlines_plain(data), 1) ELSE <<>>
    IN  IF cpp # <<>> THEN [retval |-> 1, printed |-> cpp]
        ELSE IF Contains(Lower(data), DO_NOT_COMMIT)
        THEN [retval |-> 1, printed |-> <<[fail |-> "Found DO NOT COMMIT", num |-> 0]>>]
        ELSE IF Contains(data, <<"\t">>)
        THEN [retval |-> 1, printed |-> <<[fail |-> "Found tab characters", num |-> 0]>>]
        ELSE IF EndsWithAny(filename, TERMINATING_NEWLINE_EXTS)
                /\ ~EndsWith(data, <<"\n">>)
        THEN [retval |-> 1, printed |-> <<[fail |-> "Missing terminating newline", num |-> 0]>>]
        ELSE [retval |-> 0, printed |-> <<>>]

\* check_file_content(filename, data): the value it returns and the
\* diagnostics it prints through _fail
check_file_content(filename, data) ==
    IF Contains(Lower(data), DO_NOT_COMMIT)
    THEN [retval |-> 1, printed |-> <<[fail |-> "Found DO NOT COMMIT", num |-> 0]>>]
    ELSE IF Contains(data, <<"\t">>)
    THEN [retval |-> 1, printed |-> <<[fail |-> "Found tab characters", num |-> 0]>>]
    ELSE IF EndsWithAny(filename, TERMINATING_NEWLINE_EXTS)
            /\ ~EndsWith(data, <<"\n">>)
    THEN [retval |-> 1, printed |-> <<[fail |-> "Missing terminating newline", num |-> 0]>>]
    ELSE LET cpp == IF EndsWithAny(filename, CppExts)
                    THEN cpp_loop(splitlines_plain(data), 1) ELSE <<>>
         IN  [retval |-> IF cpp # <<>> THEN 1 ELSE 0, printed |-> cpp]

(***************************************************************************)
(* SpecContent: check_file_content on texts put together from pieces that  *)
(* break each rule, under file names of each kind.                         *)
(***************************************************************************)
ContentTokens ==
    {<<"x">>,
     <<"\n">>,
     <<"\r", "\n">>,
     <<"\t">>,
     <<" ">>,
     <<"D", "o", " ", "N", "o", "t", " ", "C", "o", "m", "m", "i", "t">>,
     <<"#", "i", "n", "c", "l", "u", "d", "e", " ", "\"", "a", "\\", "b", "\"">>,
     <<"#", " ", "i", "n", "c", "l", "u", "d", "e", " ", "<", "a", "/", "b", ">", "\"", "\\">>,
     <<"t", "h", "r", "o", "w", " ", "s", "t", "d", " ", ":", ":", " ", "e", "x", "c", "e", "p", "t", "i", "o", "n", " ", "(">>,
     <<"r", "e", "t", "h", "r", "o", "w", " ", "e", "x", "c", "e", "p", "t", "i", "o", "n", "(">>}

ContentTexts ==
    {Concat(ts) : ts \in UNION {[1..n -> ContentTokens] : n \in 0..MaxPieces}}

ContentNames ==
    {<<"a", ".", "c">>, <<"a", ".", "c", "p", "p">>, <<"a", ".", "h">>, <<"a", ".", "i", "n", "l">>, <<"a", ".", "p", "y">>}

InitContent ==
    /\ NoRepository
    /\ \E filename \in ContentNames, data \in ContentTexts :
          call = [op |-> "content", filename |-> filename, data |-> data]

CheckFileContent ==
    /\ call.op = "content"
    /\ \E r \in {check_file_content(call.filename, call.data)} :
          call' = [op |-> "check_file_content", filename |-> call.filename,
                   data |-> call.data, retval |-> r.retval, printed |-> r.printed]
    /\ UNCHANGED <<mode, status, worktree, index, diff>>

NextContent == CheckFileContent

SpecContent == InitContent /\ [][NextContent]_vars

\* the offset after the whitespace of line that starts at offset p
SkipWhitespace(line, p) ==
    Min({q \in p..Len(line) : q = Len(line) \/ line[q + 1] \notin Whitespace})

\* line is an #include directive with a backslash in what follows its opening
\* quote or bracket, before any closing one
IncludeHasBackslash(line) ==
    LET hash == SkipWhitespace(line, 0)
        word == SkipWhitespace(line, hash + 1)
        open == SkipWhitespace(line, word + 7)
    IN  /\ At(line, hash, <<"#">>)
        /\ At(line, word, <<"i", "n", "c", "l", "u", "d", "e">>)
        /\ open < Len(line)
        /\ line[open + 1] \in {"\"", "<"}
        /\ \E b \in (open + 2)..Len(line) :
              /\ line[b] = "\\"
              /\ \A i \in (open + 2)..(b - 1) : line[i] \notin {"\"", ">"}

\* line throws exception or std::exception: the word throw, whitespace, an
\* optional std:: and exception followed by an opening parenthesis
ThrowsException(line) ==
    \E p \in 0..Len(line) :
        /\ At(line, p, <<"t", "h", "r", "o", "w">>)
        /\ p = 0 \/ line[p] \notin WordChars
        /\ SkipWhitespace(line, p + 5) > p + 5
        /\ LET q == SkipWhitespace(line, p + 5)
               c == SkipWhitespace(line, q + 3)
               e == IF At(line, q, <<"s", "t", "d">>) /\ At(line, c, <<":", ":">>)
                    THEN SkipWhitespace(line, c + 2) ELSE q
           IN  /\ At(line, e, <<"e", "x", "c", "e", "p", "t", "i", "o", "n">>)
               /\ At(line, SkipWhitespace(line, e + 9), <<"(">>)

\* the number of the first rule the content violates, 0 when it violates none
FirstRuleViolated(filename, data) ==
    IF Contains(Lower(data), <<"d", "o", " ", "n", "o", "t", " ", "c", "o", "m", "m", "i", "t">>) THEN 1
    ELSE IF \E i \in 1..Len(data) : data[i] = "\t" THEN 2
    ELSE IF (\E ext \in {<<".", "c">>, <<".", "c", "p", "p">>, <<".", "h">>, <<".", "i", "n", "l">>} : EndsWith(filename, ext))
            /\ (data = <<>> \/ data[Len(data)] # "\n") THEN 3
    ELSE IF (\E ext \in {<<".", "c", "p", "p">>, <<".", "h">>, <<".", "i", "n", "l">>} : EndsWith(filename, ext))
            /\ \E k \in 1..Len(splitlines_plain(data)) :
                  \/ IncludeHasBackslash(splitlines_plain(data)[k])
                  \/ ThrowsException(splitlines_plain(data)[k]) THEN 4
    ELSE 0

\* the rule a diagnostic is about
RuleOf(fail) ==
    CASE fail = "Found DO NOT COMMIT" -> 1
      [] fail = "Found tab characters" -> 2
      [] fail = "Missing terminating newline" -> 3
      [] fail \in {"Backslash in #include", "std::exception thrown"} -> 4

\* C12: check_file_content returns 1 when the content violates a rule and 0
\* when it violates none, with the rules in the order (1) 'do not commit' in
\* any letter case, (2) a tab, (3) no terminating newline in a .c, .cpp, .h
\* or .inl file, (4) a backslash in an #include or a throw of exception or
\* std::exception in a .cpp, .h or .inl file; it prints one diagnostic, that
\* of the first rule violated, and none when it returns 0.
C12_FirstRuleWins ==
    call.op = "check_file_content" =>
        LET rule == FirstRuleViolated(call.filename, call.data)
        IN  /\ call.retval = (IF rule = 0 THEN 0 ELSE 1)
            /\ Len(call.printed) = call.retval
            /\ rule # 0 => RuleOf(call.printed[1].fail) = rule

\* a .cpp file that breaks the rules 2, 3 and 4 at once: one diagnostic, the tab
C12_Witness ==
    /\ call.op = "check_file_content"
    /\ call.filename = <<"a", ".", "c", "p", "p">>
    /\ call.data = <<"\t", "t", "h", "r", "o", "w", " ", "s", "t", "d", " ", ":", ":", " ", "e", "x", "c", "e", "p", "t", "i", "o", "n", " ", "(", "x">>
    /\ call.retval = 1
    /\ call.printed = <<[fail |-> "Found tab characters", num |-> 0]>>

(***************************************************************************)
(* The aggregation of check_filenames, on SpecNames.                       *)
(***************************************************************************)
\* file i of the list fails the check of names: it breaks a rule of
\* check_filename or, where collisions are looked for, it differs only by
\* letter case from another path
FailsFilenames(c, i) ==
    \/ check_filename(c.files[i]) = 1
    \/ /\ ~c.windows
       /\ \E g \in {c.branch_files[k] : k \in 1..Len(c.branch_files)}
                      \cup {c.files[k] : k \in 1..Len(c.files)} :
             g # c.files[i] /\ Lower(g) = Lower(c.files[i])

\* C13: check_filenames evaluates every file of its list and returns the
\* number of files that fail it; a failure of one file does not keep a later
\* file from being evaluated and counted.
C13_CountsEveryFile ==
    call.op = "check_filenames" =>
        call.retval = Cardinality({i \in 1..Len(call.files) : FailsFilenames(call, i)})

\* C13 where no two paths differ only by letter case, or on Windows: the
\* loop over check_filename counts every file
C13_WithoutCollision ==
    (call.op = "check_filenames" /\ (call.windows \/ ~CaseCollision(call))) =>
        call.retval = Cardinality({i \in 1..Len(call.files) :
                                      check_filename(call.files[i]) = 1})

\* C13 in the case the early return is taken: a collision is found and a
\* file with an illegal name is in the list, so two files fail
C13_CollisionAndIllegalName ==
    (/\ call.op = "check_filenames"
     /\ mode = "commit"
     /\ ~call.windows
     /\ call.commit = <<"T", "-", "A", "A", "-">>)
        => call.retval = 2

(***************************************************************************)
(* Files that do not decode and binary files, on Spec.                     *)
(***************************************************************************)
\* the bytes the checkers read: the working file in a GitHub event and under
\* pytest, the staged blob locally
BytesRead == IF content_source = "worktree" THEN worktree ELSE index

\* the bytes are no UTF-8 text
Undecodable(bytes) == \E i \in 1..Len(bytes) : bytes[i] = BadByte

\* the bytes have a NUL byte
Binary(bytes) == \E i \in 1..Len(bytes) : bytes[i] = NulByte

\* a call of the trailing-whitespace check or of the do-not-merge check
\* returned 0
ContributesZero ==
    /\ call'.op \in {"trim", "do_not_merge"}
    /\ call'.retval = 0

\* the call skipped the file: it returned 0 without reading a line, which
\* _skip logs, and left the working file and the index alone
SkippedFile ==
    /\ ContributesZero
    /\ ~call'.ok
    /\ worktree' = worktree
    /\ index' = index

\* C14: a file that does not decode or that has a NUL byte never makes the
\* trailing-whitespace check or the do-not-merge check fail: the file
\* contributes 0 to the failure count.
C14_BadFileContributesZero ==
    [][(Undecodable(BytesRead) \/ Binary(BytesRead)) => ContributesZero]_vars

\* C14 for a file that does not decode, where the working file is read (in a
\* GitHub event and under pytest): it is skipped
C14_UndecodableWorkingFile ==
    [][(Undecodable(BytesRead) /\ content_source = "worktree") => SkippedFile]_vars

\* C14 for a file that does not decode, in any context
C14_Undecodable == [][Undecodable(BytesRead) => ContributesZero]_vars

\* C14 for a binary file, in any context
C14_Binary == [][Binary(BytesRead) => ContributesZero]_vars

(***************************************************************************)
(* Line numbers outside the snapshot, on Spec.                             *)
(***************************************************************************)
\* the line numbers of the change set within the bounds 1..len(lines)
InBounds(c) == {n \in ChangeSet(c) : 1 <= n /\ n <= Len(c.lines)}

\* the line numbers the call logged and skipped
SkippedNums(c) == {c.skipped[k] : k \in 1..Len(c.skipped)}

\* what C15 says of a call c of one of the two checks
SkipsOutOfBounds(c) ==
    LET inside == InBounds(c)
        outside == ChangeSet(c) \ inside
        bad == {k \in inside : Violates(c, c.lines[k])}
    IN  /\ c.inspected \subseteq inside
        /\ SkippedNums(c) \subseteq outside
        /\ (c.op = "trim" \/ c.retval = 0) => SkippedNums(c) = outside
        /\ (c.op = "do_not_merge" \/ c.dry_run) => (c.retval = 1 <=> bad # {})
        /\ \A k \in (1..Len(c.lines)) \ inside : c.after[k] = c.lines[k]
        /\ (c.op = "trim" /\ ~c.dry_run)
              => \A k \in inside : c.after[k] = trim_trailing_whitespace(c.lines[k])

\* C15: in check_do_not_merge_in_file and trim_trailing_whitespace_in_file a
\* line number of the change set outside 1..len(lines), 0 included, is logged
\* and skipped: no line is inspected or rewritten for it, the loop goes on
\* with the numbers that remain, and the verdict is that of the in-bounds
\* numbers alone.
C15_OutOfBoundsSkipped == Checked(call) => SkipsOutOfBounds(call)

\* C15 for the change sets without the line number 0: it holds there
C15_AboveSnapshot ==
    (Checked(call) /\ 0 \notin ChangeSet(call)) => SkipsOutOfBounds(call)

\* a line number beyond the end of the snapshot was logged and skipped and
\* the line before it was still found to have trailing whitespace
C15_SkipWitness ==
    /\ Checked(call)
    /\ call.op = "trim"
    /\ call.dry_run
    /\ 0 \notin ChangeSet(call)
    /\ call.skipped # <<>>
    /\ call.retval = 1

(***************************************************************************)
(* Lines that are no hunk header.  When the pattern does not match,        *)
(* pattern.match returns None and match.group(1) raises AttributeError,    *)
(* which nothing catches: get_changed_lines raises with it.                *)
(***************************************************************************)
\* parse_diff_header(header_line) raises
parse_diff_header_raises(header_line) == HeaderMatches(header_line) = {}

\* get_changed_lines raises, given the lines of git's output: one of the
\* lines that start with '@@' makes parse_diff_header raise
get_changed_lines_raises(output) ==
    \E n \in 1..Len(output) :
        /\ StartsWith(output[n], <<"@", "@">>)
        /\ parse_diff_header_raises(output[n])

(***************************************************************************)
(* SpecGrammar: parse_diff_header and get_changed_lines on lines that      *)
(* start with '@@', well-formed and not.                                   *)
(***************************************************************************)
\* lines put together from a start, an old side, a separator, a sign, a new
\* side and an end
HeaderLines ==
    {a \o b \o c \o d \o e \o f :
        a \in {<<"@", "@", " ">>, <<"@", "@">>, <<"@", "@", "@", " ">>},
        b \in {<<"-", "1">>, <<"-", "1", ",", "2">>, <<"x">>, <<"-">>, <<>>},
        c \in {<<" ">>, <<"\t">>, <<" ", " ">>},
        d \in {<<"+">>, <<>>},
        e \in {<<"3">>, <<"3", ",", "4">>, <<"3", ",">>, <<",", "4">>, <<"x">>, <<>>},
        f \in {<<" ", "@", "@">>, <<" ", "@", "@", " ", "f", "(", ")">>, <<"@", "@">>, <<" ", "@">>}}

InitGrammar ==
    /\ NoRepository
    /\ \E header_line \in HeaderLines :
          call = [op |-> "line", header_line |-> header_line,
                  output |-> <<HunkHeader(1, -1, 1, -1), <<"+", "a">>, header_line>>]

\* parse_diff_header on the line, and get_changed_lines on an output that has
\* a well-formed hunk before the line
ParseLine ==
    /\ call.op = "line"
    /\ call' = [op |-> "parsed", header_line |-> call.header_line,
                output |-> call.output,
                raised |-> parse_diff_header_raises(call.header_line),
                changed_lines |->
                    IF parse_diff_header_raises(call.header_line) THEN <<>>
                    ELSE <<parse_diff_header(call.header_line)>>,
                output_raised |-> get_changed_lines_raises(call.output),
                lines |->
                    IF get_changed_lines_raises(call.output) THEN <<>>
                    ELSE get_changed_lines(call.output)]
    /\ UNCHANGED <<mode, status, worktree, index, diff>>

NextGrammar == ParseLine

SpecGrammar == InitGrammar /\ [][NextGrammar]_vars

\* '@@ -<oldStart>[,<oldCount>] +<newStart>[,<newCount>] @@...'
HunkHeaderGrammar ==
    Cat(<<Bol, Lit(<<"@", "@", " ", "-">>), Plus(In(DigitChars)),
          Opt(Cat(<<Chr(","), Plus(In(DigitChars))>>)),
          Lit(<<" ", "+">>), Plus(In(DigitChars)),
          Opt(Cat(<<Chr(","), Plus(In(DigitChars))>>)),
          Lit(<<" ", "@", "@">>), Star(NotIn({}))>>)

MatchesGrammar(line) == ReMatch(HunkHeaderGrammar, line)

\* C16: parse_diff_header gives a range only for a line of the grammar
\* '@@ -<oldStart>[,<oldCount>] +<newStart>[,<newCount>] @@...'; on any other
\* line that starts with '@@' it raises and gives no range, and
\* get_changed_lines then raises as a whole and gives no change set.
C16_OnlyGrammarLines ==
    call.op = "parsed" =>
        /\ call.raised <=> ~MatchesGrammar(call.header_line)
        /\ call.raised => call.changed_lines = <<>>
        /\ call.output_raised <=> ~MatchesGrammar(call.header_line)
        /\ call.output_raised => call.lines = <<>>

\* C16, the part that holds: a line of the grammar gives its range, a line
\* that gives no range makes parse_diff_header raise, and get_changed_lines
\* then raises and returns nothing, not even the hunk before the line
C16_RaisesAsAWhole ==
    call.op = "parsed" =>
        /\ MatchesGrammar(call.header_line)
              => (~call.raised /\ Len(call.changed_lines) = 1 /\ Len(call.lines) = 2)
        /\ call.raised <=> call.changed_lines = <<>>
        /\ call.output_raised <=> call.raised
        /\ call.output_raised <=> call.lines = <<>>

\* a line with two spaces before the new side raises, and with it
\* get_changed_lines although the hunk before it is well-formed
C16_RaiseWitness ==
    /\ call.op = "parsed"
    /\ call.header_line = <<"@", "@", " ", "-", "1", " ", " ", "+", "3", " ", "@", "@">>
    /\ call.raised
    /\ call.output_raised
    /\ call.lines = <<>>

(***************************************************************************)
(* What a fix changes in the working file, on Spec.                        *)
(***************************************************************************)
\* the lines a fix may leave for line `before`: the line itself and, where
\* trimmed says so, the line without some of the trailing whitespace in
\* front of its line break
LinesLeft(before, trimmed) ==
    IF trimmed
    THEN {Without(before, D) :
            D \in SUBSET {i \in 1..Len(StripBreak(before)) : IsTrailing(before, i)}}
    ELSE {before}

RECURSIVE LeftLineByLine(_, _, _, _)
\* written is, line by line from line k on, what a fix may leave of the
\* lines before, trimming the lines whose numbers are in nums
LeftLineByLine(before, k, nums, written) ==
    IF k > Len(before) THEN written = <<>>
    ELSE \E line \in LinesLeft(before[k], k \in nums) :
            /\ StartsWith(written, line)
            /\ LeftLineByLine(before, k + 1, nums,
                              Slice(written, Len(line), Len(written)))

\* what C17 says of the working file a fix c found (c.on_disk) and of the
\* working file it left (written)
OnlyChangeSetTrimmed(c, written) ==
    LeftLineByLine(splitlines(c.on_disk), 1, ChangeSet(c), written)

\* a fix that read the file
Fix(c) == c.op = "trim" /\ c.ok /\ ~c.dry_run

\* C17: a fix changes nothing but trailing whitespace on lines of the change
\* set: the working file keeps its number of lines, a line whose number is
\* not in the change set is what it was on disk before the call, and a line
\* of the change set differs from it by removed trailing whitespace only.
C17_FixChangesOnlyChangeSet ==
    Fix(call) => OnlyChangeSetTrimmed(call, worktree)

\* the text has a carriage return that no newline follows
LoneCarriageReturn(text) ==
    \E i \in 1..Len(text) :
        text[i] = "\r" /\ (i = Len(text) \/ text[i + 1] # "\n")

\* C17 where the fix read the very bytes of the working file, the change set
\* is without the line number 0 and no line ends in a lone carriage return:
\* it holds there
C17_CleanCheckout ==
    (/\ Fix(call)
     /\ Concat(call.lines) = call.on_disk
     /\ 0 \notin ChangeSet(call)
     /\ ~LoneCarriageReturn(call.on_disk))
        => OnlyChangeSetTrimmed(call, worktree)

\* a fix that removed trailing whitespace from the one changed line of a
\* file it read from the working directory
C17_FixWitness ==
    /\ Fix(call)
    /\ ~call.new_file
    /\ call.wrote
    /\ Concat(call.lines) = call.on_disk
    /\ 0 \notin ChangeSet(call)
    /\ ~LoneCarriageReturn(call.on_disk)
    /\ worktree # call.on_disk

\* C17 for a local commit with an unstaged edit in the working file
C17_UnstagedEditKept ==
    (Fix(call) /\ mode = "commit" /\ ~LoneCarriageReturn(call.on_disk)
        /\ 0 \notin ChangeSet(call))
        => OnlyChangeSetTrimmed(call, worktree)

\* C17 for the files with a lone carriage return, read from the working file
C17_NoLinesMerged ==
    (Fix(call) /\ Concat(call.lines) = call.on_disk /\ 0 \notin ChangeSet(call))
        => OnlyChangeSetTrimmed(call, worktree)

\* C17 for the change sets with the line number 0, read from the working file
C17_OnlyChangeSetLines ==
    (Fix(call) /\ Concat(call.lines) = call.on_disk
        /\ ~LoneCarriageReturn(call.on_disk))
        => OnlyChangeSetTrimmed(call, worktree)

====
